---- MODULE Spec2Model ----
(***************************************************************************)
(* Model of the pull-request review workflow of src/agent.py: three        *)
(* FunctionAgents (ContextAgent, CommentorAgent, ReviewAndPostingAgent)    *)
(* run by one AgentWorkflow over a three-field Run State.  The language    *)
(* model is an input: every step of an agent is one decision of the        *)
(* model (a tool call with arguments, a handoff request, or a final        *)
(* response).  Spec lets the model decide anything the tools accept;       *)
(* SpecPrompt restricts the decisions to those the system prompts ask for. *)
(***************************************************************************)
EXTENDS Integers, Sequences, FiniteSets, TLC

\* ---------------------------------------------------------------- bounds
MaxPosts == 2
MaxRubricFails == 3
MaxContextRequests == 1
MaxGatewayFailures == 1
MaxRuns == 2
MaxTasks == 2
MaxSteps == 3

\* ------------------------------------------------------------- constants
PR_NUMBER == 42

Agents == {"ContextAgent", "CommentorAgent", "ReviewAndPostingAgent"}

\* texts a tool argument can carry (drafts, contexts, final reviews)
Texts == {"t1", "t2"}

\* what the language model can name in a handoff request
HandoffArgs == Agents \cup {"UnknownAgent"}

\* the hosted repository: one pull request, one commit, one file
PullArgs == {PR_NUMBER, 7}
ExistingPulls == {PR_NUMBER}
ShaArgs == {"abc123", "bad"}
ExistingShas == {"abc123"}
PathArgs == {"README.md", "missing.txt"}
ExistingPaths == {"README.md"}

Fields == {"gathered_contexts", "review_comment", "final_review_comment"}

\* the environment values the program reads with os.getenv
ConfigKeys == {"GROQ_API_KEY", "GITHUB_TOKEN", "REPOSITORY", "PR_NUMBER"}

\* pr.body as the hosting service returns it: None, "" or a text
Bodies ==
  {[present |-> FALSE, text |-> ""],
   [present |-> TRUE, text |-> ""],
   [present |-> TRUE, text |-> "Fix typo"]}

VARIABLES
  current_agent_name,  \* the agent holding control
  state,               \* Run State: the three text fields
  posted,              \* reviews created on the pull request, in order
  status,              \* "running", "stopped" (final response), "aborted"
  memory,              \* tools that succeeded since the active agent took control
  last_event,          \* the latest tool call and its result on the event stream
  rpa_first_turn,      \* TRUE until control first leaves the root agent
  last_write,          \* the latest edit of Run State: field, value, value replaced
  snapshot,            \* what the latest tool call returned, if it was get_pr_details
  mock,                \* counters of the scripted language model
  env,                 \* the process: configuration present, invocations so far
  edits,               \* writer tool calls in flight and the edit_state lock
  observer             \* main's event loop: events streamed, lines printed

vars == <<current_agent_name, state, posted, status, memory, last_event,
          rpa_first_turn, last_write, snapshot, mock, env, edits, observer>>

\* what no step of a running workflow changes
rest == <<env, edits, observer>>

\* ------------------------------------------------------ agent definitions
can_handoff_to_Buggy(agent) ==
  Agents \ {agent}

can_handoff_to(agent) ==
  CASE agent = "ContextAgent" -> {"CommentorAgent"}
    [] agent = "CommentorAgent" -> {"ReviewAndPostingAgent", "ContextAgent"}
    [] agent = "ReviewAndPostingAgent" -> {"CommentorAgent"}

\* every agent is given every tool
tools_Shared(agent) ==
  {"get_pr_details", "get_file_contents", "get_commit_details",
   "add_context_to_state", "save_draft_comment_to_state",
   "post_final_review_to_github", "add_final_review_to_state"}

tools(agent) ==
  CASE agent = "ContextAgent" ->
         {"get_pr_details", "get_file_contents", "get_commit_details",
          "add_context_to_state"}
    [] agent = "CommentorAgent" -> {"save_draft_comment_to_state"}
    [] agent = "ReviewAndPostingAgent" ->
         {"post_final_review_to_github", "add_final_review_to_state"}

initial_state ==
  [gathered_contexts |-> "", review_comment |-> "", final_review_comment |-> ""]

NoEvent ==
  [agent |-> "none", tool |-> "none", arg |-> "", pr |-> 0, ok |-> TRUE]

NoWrite ==
  [field |-> "none", value |-> "", replaced |-> ""]

\* handler.stream_events() has yielded nothing yet; current_agent = None
NoObserver ==
  [emitted |-> <<>>, next |-> 1, current_agent |-> "None", printed |-> <<>>,
   steps |-> 0]

\* no writer tool call in flight, edit_state lock free
NoEdits ==
  [lock |-> 0, start |-> initial_state, tasks |-> <<>>]

NoSnapshot ==
  [fetched |-> FALSE, pr_body |-> [present |-> FALSE, text |-> ""], body |-> ""]

\* root_agent=review_and_posting_agent.name
root_agent_First ==
  "ContextAgent"

root_agent ==
  "ReviewAndPostingAgent"

MockStart ==
  [rubric_fails |-> 0, context_requests |-> 0, gateway_failures |-> 0,
   drafts |-> 0, handbacks |-> 0]

build_agent_workflow ==
  /\ current_agent_name = root_agent
  /\ state = initial_state
  /\ posted = <<>>
  /\ memory = {}
  /\ last_event = NoEvent
  /\ rpa_first_turn = TRUE
  /\ last_write = NoWrite
  /\ snapshot = NoSnapshot
  /\ mock = MockStart

\* a process whose configuration is complete, with the workflow started
Init ==
  /\ build_agent_workflow
  /\ status = "running"
  /\ env = [config |-> ConfigKeys, runs |-> 1, earlier_wrote |-> FALSE]
  /\ edits = NoEdits
  /\ observer = NoObserver

\* the language model (groq) answers only with its credential
LlmAnswers ==
  "GROQ_API_KEY" \in env.config

\* any agent may call the tool, whoever holds control
Offered_AnyAgent(tool) ==
  /\ status = "running"
  /\ LlmAnswers

\* the active agent may call the tool
Offered(tool) ==
  /\ status = "running"
  /\ LlmAnswers
  /\ tool \in tools(current_agent_name)

Event(tool, arg, pr, ok) ==
  [agent |-> current_agent_name, tool |-> tool, arg |-> arg, pr |-> pr, ok |-> ok]


\* ------------------------------------------------------------ tool layer
\* a tool call that raised: the exception text is the tool's output
ToolFailed_Fatal(tool, arg, pr) ==
  /\ last_event' = Event(tool, arg, pr, FALSE)
  /\ status' = "aborted"
  /\ snapshot' = NoSnapshot
  /\ UNCHANGED <<current_agent_name, state, posted, memory, rpa_first_turn,
                 last_write>>

ToolFailed(tool, arg, pr) ==
  /\ last_event' = Event(tool, arg, pr, FALSE)
  /\ snapshot' = NoSnapshot
  /\ UNCHANGED <<current_agent_name, state, posted, status, memory,
                 rpa_first_turn, last_write>>

ToolReturnedWith(tool, arg, pr, output) ==
  /\ last_event' = Event(tool, arg, pr, TRUE)
  /\ memory' = memory \cup {tool}
  /\ snapshot' = output
  /\ UNCHANGED <<current_agent_name, status, rpa_first_turn>>

ToolReturned(tool, arg, pr) ==
  ToolReturnedWith(tool, arg, pr, NoSnapshot)

\* async with ctx.store.edit_state(): ctx_state["state"][field] = value
edit_state_KeepsFirst(field, value) ==
  [state EXCEPT ![field] = IF @ = "" THEN value ELSE @]

edit_state(field, value) ==
  [state EXCEPT ![field] = value]

Written(field, value) ==
  [field |-> field, value |-> value, replaced |-> state[field]]

\* ----------------------------------------------------- ContextAgent tools
add_context_to_state(gathered_contexts) ==
  /\ Offered("add_context_to_state")
  /\ state' = edit_state("gathered_contexts", gathered_contexts)
  /\ last_write' = Written("gathered_contexts", gathered_contexts)
  /\ ToolReturned("add_context_to_state", gathered_contexts, 0)
  /\ UNCHANGED posted

\* 'body': pr.body or '<Empty body>'
body_or_sentinel_NoneOnly(pr_body) ==
  IF pr_body.present THEN pr_body.text ELSE "<Empty body>"

body_or_sentinel(pr_body) ==
  IF pr_body.present /\ pr_body.text # "" THEN pr_body.text ELSE "<Empty body>"

get_pr_details(pr_number, gateway_ok, pr_body) ==
  /\ Offered("get_pr_details")
  /\ IF gateway_ok /\ pr_number \in ExistingPulls
       THEN ToolReturnedWith("get_pr_details", "", pr_number,
                             [fetched |-> TRUE, pr_body |-> pr_body,
                              body |-> body_or_sentinel(pr_body)])
            /\ UNCHANGED <<state, posted, last_write>>
       ELSE ToolFailed("get_pr_details", "", pr_number)

get_file_contents(file_path, gateway_ok) ==
  /\ Offered("get_file_contents")
  /\ IF gateway_ok /\ file_path \in ExistingPaths
       THEN ToolReturned("get_file_contents", file_path, 0)
            /\ UNCHANGED <<state, posted, last_write>>
       ELSE ToolFailed("get_file_contents", file_path, 0)

get_commit_details(head_sha, gateway_ok) ==
  /\ Offered("get_commit_details")
  /\ IF gateway_ok /\ head_sha \in ExistingShas
       THEN ToolReturned("get_commit_details", head_sha, 0)
            /\ UNCHANGED <<state, posted, last_write>>
       ELSE ToolFailed("get_commit_details", head_sha, 0)

\* --------------------------------------------------- CommentorAgent tools
save_draft_comment_to_state(draft_comment) ==
  /\ Offered("save_draft_comment_to_state")
  /\ state' = edit_state("review_comment", draft_comment)
  /\ last_write' = Written("review_comment", draft_comment)
  /\ ToolReturned("save_draft_comment_to_state", draft_comment, 0)
  /\ UNCHANGED posted

\* -------------------------------------------- ReviewAndPostingAgent tools
add_final_review_to_state(final_review) ==
  /\ Offered("add_final_review_to_state")
  /\ state' = edit_state("final_review_comment", final_review)
  /\ last_write' = Written("final_review_comment", final_review)
  /\ ToolReturned("add_final_review_to_state", final_review, 0)
  /\ UNCHANGED posted

\* pr.create_review(commit, body, event="COMMENT") on the configured PR
create_review_Twice(body) ==
  Append(Append(posted, [pr |-> PR_NUMBER, body |-> body]),
         [pr |-> PR_NUMBER, body |-> body])

create_review(body) ==
  Append(posted, [pr |-> PR_NUMBER, body |-> body])

post_final_review_to_github(final_review_comment, gateway_ok) ==
  /\ Offered("post_final_review_to_github")
  /\ Len(posted) < MaxPosts
  /\ IF gateway_ok /\ PR_NUMBER \in ExistingPulls
       THEN /\ posted' = create_review(final_review_comment)
            /\ ToolReturned("post_final_review_to_github",
                            final_review_comment, PR_NUMBER)
            /\ UNCHANGED <<state, last_write>>
       ELSE ToolFailed("post_final_review_to_github",
                       final_review_comment, PR_NUMBER)

\* ------------------------------------------------------ workflow protocol
\* a handoff that discards the draft it sends back
handoff_ClearsDraft(to_agent) ==
  /\ status = "running"
  /\ LlmAnswers
  /\ IF to_agent \in can_handoff_to(current_agent_name)
       THEN /\ current_agent_name' = to_agent
            /\ memory' = {}
            /\ rpa_first_turn' = FALSE
            /\ last_event' = Event("handoff", to_agent, 0, TRUE)
            /\ snapshot' = NoSnapshot
            /\ state' = IF to_agent = "CommentorAgent"
                        THEN [state EXCEPT !["review_comment"] = ""]
                        ELSE state
            /\ UNCHANGED <<posted, status, last_write>>
       ELSE ToolFailed("handoff", to_agent, 0)

\* a workflow that grants a single handoff per run
handoff_FirstOnly(to_agent) ==
  /\ status = "running"
  /\ LlmAnswers
  /\ IF to_agent \in can_handoff_to(current_agent_name) /\ rpa_first_turn
       THEN /\ current_agent_name' = to_agent
            /\ memory' = {}
            /\ rpa_first_turn' = FALSE
            /\ last_event' = Event("handoff", to_agent, 0, TRUE)
            /\ snapshot' = NoSnapshot
            /\ UNCHANGED <<state, posted, status, last_write>>
       ELSE ToolFailed("handoff", to_agent, 0)

\* the handoff tool the workflow adds to every agent
handoff(to_agent) ==
  /\ status = "running"
  /\ LlmAnswers
  /\ IF to_agent \in can_handoff_to(current_agent_name)
       THEN /\ current_agent_name' = to_agent
            /\ memory' = {}
            /\ rpa_first_turn' = FALSE
            /\ last_event' = Event("handoff", to_agent, 0, TRUE)
            /\ snapshot' = NoSnapshot
            /\ UNCHANGED <<state, posted, status, last_write>>
       ELSE ToolFailed("handoff", to_agent, 0)

\* an AgentOutput with content and no tool call ends the run
final_response ==
  /\ status = "running"
  /\ LlmAnswers
  /\ status' = "stopped"
  /\ UNCHANGED <<current_agent_name, state, posted, memory, last_event,
                 rpa_first_turn, last_write, snapshot>>

\* the language-model call itself raises: the run ends with the exception
llm_failure ==
  /\ status = "running"
  /\ status' = "aborted"
  /\ UNCHANGED <<current_agent_name, state, posted, memory, last_event,
                 rpa_first_turn, last_write, snapshot>>

\* ------------------------------------- Spec: any decision of the model
CallAddContext ==
  \E v \in Texts : add_context_to_state(v) /\ UNCHANGED <<mock, rest>>

CallGetPrDetails ==
  \E n \in PullArgs, ok \in BOOLEAN, b \in Bodies :
     get_pr_details(n, ok, b) /\ UNCHANGED <<mock, rest>>

CallGetFileContents ==
  \E f \in PathArgs, ok \in BOOLEAN : get_file_contents(f, ok) /\ UNCHANGED <<mock, rest>>

CallGetCommitDetails ==
  \E h \in ShaArgs, ok \in BOOLEAN : get_commit_details(h, ok) /\ UNCHANGED <<mock, rest>>

CallSaveDraft ==
  \E v \in Texts : save_draft_comment_to_state(v) /\ UNCHANGED <<mock, rest>>

CallAddFinalReview ==
  \E v \in Texts : add_final_review_to_state(v) /\ UNCHANGED <<mock, rest>>

CallPost ==
  \E v \in Texts, ok \in BOOLEAN :
     post_final_review_to_github(v, ok) /\ UNCHANGED <<mock, rest>>

HandoffTo(to_agent) ==
  handoff(to_agent) /\ UNCHANGED <<mock, rest>>

CallHandoff ==
  \E a \in HandoffArgs : HandoffTo(a)

Respond ==
  final_response /\ UNCHANGED <<mock, rest>>

LlmFails ==
  llm_failure /\ UNCHANGED <<mock, rest>>

Next ==
  \/ CallAddContext
  \/ CallGetPrDetails
  \/ CallGetFileContents
  \/ CallGetCommitDetails
  \/ CallSaveDraft
  \/ CallAddFinalReview
  \/ CallPost
  \/ CallHandoff
  \/ Respond
  \/ LlmFails

Spec == Init /\ [][Next]_vars

TypeOK ==
  /\ current_agent_name \in Agents
  /\ \A f \in Fields : state[f] \in Texts \cup {""}
  /\ Len(posted) <= MaxPosts
  /\ status \in {"loading", "main", "config_error",
                 "running", "stopped", "aborted"}
  /\ memory \subseteq tools(current_agent_name)
  /\ rpa_first_turn \in BOOLEAN


\* ---------------- SpecProcess: the program from its start, run after run
\* module level of agent.py: groq = Groq(...), the GITHUB_TOKEN check,
\* git.get_repo(os.getenv("REPOSITORY"))
load_module ==
  /\ status = "loading"
  /\ status' = IF {"GITHUB_TOKEN", "REPOSITORY"} \subseteq env.config
                 THEN "main" ELSE "config_error"
  /\ UNCHANGED <<current_agent_name, state, posted, memory, last_event,
                 rpa_first_turn, last_write, snapshot, mock, env, edits,
                 observer>>

\* main(): build_agent_workflow(), Context(workflow),
\* "Write a review for PR: " + os.getenv("PR_NUMBER"), workflow.run(...)
main ==
  /\ status = "main"
  /\ IF "PR_NUMBER" \in env.config
       THEN /\ current_agent_name' = root_agent
            /\ state' = initial_state
            /\ posted' = <<>>
            /\ memory' = {}
            /\ last_event' = NoEvent
            /\ rpa_first_turn' = TRUE
            /\ last_write' = NoWrite
            /\ snapshot' = NoSnapshot
            /\ mock' = MockStart
            /\ status' = "running"
       ELSE /\ status' = "config_error"
            /\ UNCHANGED <<current_agent_name, state, posted, memory,
                           last_event, rpa_first_turn, last_write, snapshot,
                           mock>>
  /\ UNCHANGED <<env, edits, observer>>

\* the program is started again, with whatever configuration is then set;
\* the new process has no event, tool result or write of its own yet, and
\* the old agent, Run State and reviews only stand for what the earlier
\* invocation left behind
relaunch ==
  /\ status \in {"stopped", "aborted", "config_error"}
  /\ env.runs < MaxRuns
  /\ \E config \in SUBSET ConfigKeys :
       env' = [config |-> config, runs |-> env.runs + 1,
               earlier_wrote |-> env.earlier_wrote \/ state # initial_state]
  /\ status' = "loading"
  /\ memory' = {}
  /\ last_event' = NoEvent
  /\ rpa_first_turn' = TRUE
  /\ last_write' = NoWrite
  /\ snapshot' = NoSnapshot
  /\ UNCHANGED <<current_agent_name, state, posted, mock, edits, observer>>

InitProcess ==
  /\ build_agent_workflow
  /\ status = "loading"
  /\ \E config \in SUBSET ConfigKeys :
       env = [config |-> config, runs |-> 1, earlier_wrote |-> FALSE]
  /\ edits = NoEdits
  /\ observer = NoObserver

NextProcess ==
  \/ load_module
  \/ main
  \/ relaunch
  \/ CallAddContext
  \/ CallGetPrDetails
  \/ CallGetFileContents
  \/ CallGetCommitDetails
  \/ CallSaveDraft
  \/ CallAddFinalReview
  \/ CallPost
  \/ CallHandoff
  \/ Respond
  \/ LlmFails

SpecProcess == InitProcess /\ [][NextProcess]_vars

\* --------------------- SpecPrompt: decisions that follow the system prompts
\* what the scripted language model has seen after one more tool call
MockAfter(tool, arg, ok, verdict) ==
  [mock EXCEPT
     !.rubric_fails = IF verdict = "fail" THEN @ + 1 ELSE @,
     !.handbacks =
        IF /\ tool = "handoff"
           /\ current_agent_name = "ReviewAndPostingAgent"
           /\ arg = "CommentorAgent"
           /\ state["review_comment"] # ""
          THEN @ + 1 ELSE @,
     !.drafts = IF tool = "save_draft_comment_to_state" /\ ok THEN @ + 1 ELSE @,
     !.context_requests =
        IF /\ tool = "handoff"
           /\ arg = "ContextAgent"
           /\ state["gathered_contexts"] # ""
          THEN @ + 1 ELSE @,
     !.gateway_failures = IF ok THEN @ ELSE @ + 1]

\* a Gateway call of the scripted run may fail MaxGatewayFailures times
GatewayOutcomes ==
  IF mock.gateway_failures < MaxGatewayFailures THEN BOOLEAN ELSE {TRUE}

\* ContextAgent prompt: "you MUST gather: the details ...; changed files;
\* any requested for files; once you gather the requested info, you MUST
\* hand control back to the CommentorAgent"
ContextPrompt ==
  CASE "add_context_to_state" \in memory -> {"handoff"}
    [] "get_pr_details" \notin memory -> {"get_pr_details"}
    [] "get_pr_details" \in memory /\ "get_commit_details" \notin memory
         /\ "add_context_to_state" \notin memory -> {"get_commit_details"}
    [] OTHER ->
         IF "get_file_contents" \in memory
           THEN {"add_context_to_state"}
           ELSE {"get_file_contents", "add_context_to_state"}

\* CommentorAgent prompt: "request for the PR details ... from the
\* ContextAgent; write a review; if you need any additional details, you
\* must hand off to the Context Agent; you MUST save your draft to state and
\* hand off it to the ReviewAndPostingAgent"
CommentorPrompt ==
  CASE "save_draft_comment_to_state" \in memory -> {"handoff_reviewer"}
    [] "save_draft_comment_to_state" \notin memory
         /\ state["gathered_contexts"] = "" -> {"handoff_context"}
    [] OTHER ->
         IF mock.context_requests < MaxContextRequests
           THEN {"handoff_context", "save_draft_comment_to_state"}
           ELSE {"save_draft_comment_to_state"}

\* ReviewAndPostingAgent prompt: "you must use the CommentorAgent to create
\* a draft; once a draft review is generated, run a final check and post
\* it; if the review does not meet this criteria, ask the CommentorAgent to
\* rewrite; you MUST save final review to state and post the review"
PostingPrompt_NoDraftCheck ==
  CASE posted # <<>> -> {"final_response"}
    [] posted = <<>> /\ state["final_review_comment"] # "" ->
         {"post_final_review_to_github"}
    [] OTHER ->
         IF mock.rubric_fails < MaxRubricFails
           THEN {"rubric_fail", "rubric_pass"}
           ELSE {"rubric_pass"}

PostingPrompt ==
  CASE posted # <<>> -> {"final_response"}
    [] posted = <<>> /\ state["final_review_comment"] # "" ->
         {"post_final_review_to_github"}
    [] posted = <<>> /\ state["final_review_comment"] = ""
         /\ state["review_comment"] = "" -> {"handoff"}
    [] OTHER ->
         IF mock.rubric_fails < MaxRubricFails
           THEN {"rubric_fail", "rubric_pass"}
           ELSE {"rubric_pass"}

Active(agent) ==
  status = "running" /\ current_agent_name = agent

PromptGatherPr ==
  /\ Active("ContextAgent") /\ "get_pr_details" \in ContextPrompt
  /\ \E ok \in GatewayOutcomes, b \in Bodies :
       /\ get_pr_details(PR_NUMBER, ok, b)
       /\ mock' = MockAfter("get_pr_details", "", ok, "none")
  /\ UNCHANGED rest

PromptGatherCommit ==
  /\ Active("ContextAgent") /\ "get_commit_details" \in ContextPrompt
  /\ \E ok \in GatewayOutcomes :
       /\ get_commit_details("abc123", ok)
       /\ mock' = MockAfter("get_commit_details", "abc123", ok, "none")
  /\ UNCHANGED rest

PromptGatherFile ==
  /\ Active("ContextAgent") /\ "get_file_contents" \in ContextPrompt
  /\ \E ok \in GatewayOutcomes :
       /\ get_file_contents("README.md", ok)
       /\ mock' = MockAfter("get_file_contents", "README.md", ok, "none")
  /\ UNCHANGED rest

PromptSaveContext ==
  /\ Active("ContextAgent") /\ "add_context_to_state" \in ContextPrompt
  /\ \E v \in Texts :
       /\ add_context_to_state(v)
       /\ mock' = MockAfter("add_context_to_state", v, TRUE, "none")
  /\ UNCHANGED rest

PromptContextHandsBack ==
  /\ Active("ContextAgent") /\ "handoff" \in ContextPrompt
  /\ handoff("CommentorAgent")
  /\ mock' = MockAfter("handoff", "CommentorAgent", TRUE, "none")
  /\ UNCHANGED rest

PromptRequestContext ==
  /\ Active("CommentorAgent") /\ "handoff_context" \in CommentorPrompt
  /\ handoff("ContextAgent")
  /\ mock' = MockAfter("handoff", "ContextAgent", TRUE, "none")
  /\ UNCHANGED rest

PromptDraft ==
  /\ Active("CommentorAgent")
  /\ "save_draft_comment_to_state" \in CommentorPrompt
  /\ \E v \in Texts :
       /\ save_draft_comment_to_state(v)
       /\ mock' = MockAfter("save_draft_comment_to_state", v, TRUE, "none")
  /\ UNCHANGED rest

PromptSubmitDraft ==
  /\ Active("CommentorAgent") /\ "handoff_reviewer" \in CommentorPrompt
  /\ handoff("ReviewAndPostingAgent")
  /\ mock' = MockAfter("handoff", "ReviewAndPostingAgent", TRUE, "none")
  /\ UNCHANGED rest

PromptStart ==
  /\ Active("ReviewAndPostingAgent") /\ "handoff" \in PostingPrompt
  /\ handoff("CommentorAgent")
  /\ mock' = MockAfter("handoff", "CommentorAgent", TRUE, "none")
  /\ UNCHANGED rest

PromptRubricFail ==
  /\ Active("ReviewAndPostingAgent") /\ "rubric_fail" \in PostingPrompt
  /\ handoff("CommentorAgent")
  /\ mock' = MockAfter("handoff", "CommentorAgent", TRUE, "fail")
  /\ UNCHANGED rest

PromptRubricPass ==
  /\ Active("ReviewAndPostingAgent")
  /\ "rubric_pass" \in PostingPrompt
  /\ \E v \in (IF state["review_comment"] = ""
                 THEN Texts ELSE {state["review_comment"]}) :
       /\ add_final_review_to_state(v)
       /\ mock' = MockAfter("add_final_review_to_state", v, TRUE, "pass")
  /\ UNCHANGED rest

PromptPost ==
  /\ Active("ReviewAndPostingAgent")
  /\ "post_final_review_to_github" \in PostingPrompt
  /\ \E ok \in GatewayOutcomes :
       /\ post_final_review_to_github(state["final_review_comment"], ok)
       /\ mock' = MockAfter("post_final_review_to_github",
                            state["final_review_comment"], ok, "none")
  /\ UNCHANGED rest

PromptFinish ==
  /\ Active("ReviewAndPostingAgent") /\ "final_response" \in PostingPrompt
  /\ final_response
  /\ UNCHANGED <<mock, rest>>

NextPrompt ==
  \/ PromptGatherPr
  \/ PromptGatherCommit
  \/ PromptGatherFile
  \/ PromptSaveContext
  \/ PromptContextHandsBack
  \/ PromptRequestContext
  \/ PromptDraft
  \/ PromptSubmitDraft
  \/ PromptStart
  \/ PromptRubricFail
  \/ PromptRubricPass
  \/ PromptPost
  \/ PromptFinish

\* the cooperative event loop runs the next step whenever there is one
SpecPrompt == Init /\ [][NextPrompt]_vars /\ WF_vars(NextPrompt)


\* ------------- SpecEdit: writer tool calls in flight at the same time
WriterTools ==
  {"add_context_to_state", "save_draft_comment_to_state",
   "add_final_review_to_state"}

\* the state key each writer tool assigns
WriterField(tool) ==
  CASE tool = "add_context_to_state" -> "gathered_contexts"
    [] tool = "save_draft_comment_to_state" -> "review_comment"
    [] tool = "add_final_review_to_state" -> "final_review_comment"

Tasks == 1..MaxTasks

\* a writer tool call that has been dispatched and not yet entered edit_state
Called ==
  [tool : WriterTools, value : Texts, pc : {"called"},
   ctx_state : {initial_state}]

\* async with ctx.store.edit_state() as ctx_state: entered without waiting
\* for the lock
edit_acquire_NoLock(t) ==
  /\ edits.tasks[t].pc = "called"
  /\ edits' = [edits EXCEPT !.lock = t,
                            !.tasks[t].pc = "entered",
                            !.tasks[t].ctx_state = state]
  /\ UNCHANGED <<current_agent_name, state, posted, status, memory,
                 last_event, rpa_first_turn, last_write, snapshot, mock, env,
                 observer>>

\* async with ctx.store.edit_state() as ctx_state: take the lock, read state
edit_acquire(t) ==
  /\ edits.tasks[t].pc = "called"
  /\ edits.lock = 0
  /\ edits' = [edits EXCEPT !.lock = t,
                            !.tasks[t].pc = "entered",
                            !.tasks[t].ctx_state = state]
  /\ UNCHANGED <<current_agent_name, state, posted, status, memory,
                 last_event, rpa_first_turn, last_write, snapshot, mock, env,
                 observer>>

\* ctx_state["state"][key] = value
edit_assign(t) ==
  /\ edits.tasks[t].pc = "entered"
  /\ edits' = [edits EXCEPT
                 !.tasks[t].pc = "assigned",
                 !.tasks[t].ctx_state[WriterField(edits.tasks[t].tool)] =
                   edits.tasks[t].value]
  /\ UNCHANGED <<current_agent_name, state, posted, status, memory,
                 last_event, rpa_first_turn, last_write, snapshot, mock, env,
                 observer>>

\* leaving the async with block: write the state back, free the lock
edit_release(t) ==
  /\ edits.tasks[t].pc = "assigned"
  /\ state' = edits.tasks[t].ctx_state
  /\ edits' = [edits EXCEPT !.lock = 0, !.tasks[t].pc = "done"]
  /\ UNCHANGED <<current_agent_name, posted, status, memory, last_event,
                 rpa_first_turn, last_write, snapshot, mock, env, observer>>

Acquire == \E t \in Tasks : edit_acquire(t)

Assign == \E t \in Tasks : edit_assign(t)

Release == \E t \in Tasks : edit_release(t)

\* any Run State a run can have reached, and any writer calls dispatched on it
InitEdit ==
  /\ current_agent_name \in Agents
  /\ state \in [Fields -> Texts \cup {""}]
  /\ posted = <<>>
  /\ status = "running"
  /\ memory = {}
  /\ last_event = NoEvent
  /\ rpa_first_turn = FALSE
  /\ last_write = NoWrite
  /\ snapshot = NoSnapshot
  /\ mock = MockStart
  /\ env = [config |-> ConfigKeys, runs |-> 1, earlier_wrote |-> FALSE]
  /\ \E tasks \in [Tasks -> Called] :
       edits = [lock |-> 0, start |-> state, tasks |-> tasks]
  /\ observer = NoObserver

NextEdit ==
  \/ Acquire
  \/ Assign
  \/ Release

SpecEdit == InitEdit /\ [][NextEdit]_vars

\* ------------------ SpecObserver: the workflow and main's event loop
\* an event on the handler's stream; only AgentInput, AgentStream and
\* AgentOutput carry current_agent_name, by is the agent whose step made it
StreamEvent(type, by, tool, content) ==
  [type |-> type, by |-> by, tool |-> tool, content |-> content]

NamedTypes == {"AgentInput", "AgentStream", "AgentOutput"}

\* hasattr(event, "current_agent_name")
HasAgentName(event) == event.type \in NamedTypes

\* the events of one agent step that ends in a tool call
ToolStepEvents(by, tool, content) ==
  << StreamEvent("AgentInput", by, "none", FALSE),
     StreamEvent("AgentStream", by, "none", FALSE),
     StreamEvent("AgentOutput", by, tool, content),
     StreamEvent("ToolCall", by, tool, FALSE),
     StreamEvent("ToolCallResult", by, tool, FALSE) >>

\* the events of an agent step that answers without a tool call
ResponseEvents(by, content) ==
  << StreamEvent("AgentInput", by, "none", FALSE),
     StreamEvent("AgentStream", by, "none", FALSE),
     StreamEvent("AgentOutput", by, "none", content),
     StreamEvent("StopEvent", by, "none", FALSE) >>

Emit(events) ==
  /\ observer.steps < MaxSteps
  /\ observer' = [observer EXCEPT !.emitted = @ \o events,
                                  !.steps = @ + 1]

\* the step of the active agent calls a tool: its events go on the stream
EmitToolStep ==
  \E content \in BOOLEAN :
     Emit(ToolStepEvents(current_agent_name, last_event'.tool, content))

WatchAddContext ==
  /\ \E v \in Texts : add_context_to_state(v)
  /\ EmitToolStep
  /\ UNCHANGED <<mock, env, edits>>

WatchGetPrDetails ==
  /\ \E n \in PullArgs, ok \in BOOLEAN, b \in Bodies : get_pr_details(n, ok, b)
  /\ EmitToolStep
  /\ UNCHANGED <<mock, env, edits>>

WatchGetFileContents ==
  /\ \E f \in PathArgs, ok \in BOOLEAN : get_file_contents(f, ok)
  /\ EmitToolStep
  /\ UNCHANGED <<mock, env, edits>>

WatchGetCommitDetails ==
  /\ \E h \in ShaArgs, ok \in BOOLEAN : get_commit_details(h, ok)
  /\ EmitToolStep
  /\ UNCHANGED <<mock, env, edits>>

WatchSaveDraft ==
  /\ \E v \in Texts : save_draft_comment_to_state(v)
  /\ EmitToolStep
  /\ UNCHANGED <<mock, env, edits>>

WatchAddFinalReview ==
  /\ \E v \in Texts : add_final_review_to_state(v)
  /\ EmitToolStep
  /\ UNCHANGED <<mock, env, edits>>

WatchPost ==
  /\ \E v \in Texts, ok \in BOOLEAN : post_final_review_to_github(v, ok)
  /\ EmitToolStep
  /\ UNCHANGED <<mock, env, edits>>

WatchHandoff ==
  /\ \E a \in HandoffArgs : handoff(a)
  /\ EmitToolStep
  /\ UNCHANGED <<mock, env, edits>>

WatchRespond ==
  /\ final_response
  /\ \E content \in BOOLEAN : Emit(ResponseEvents(current_agent_name, content))
  /\ UNCHANGED <<mock, env, edits>>

\* the language-model call raises after the step's AgentInput was streamed
WatchLlmFails ==
  /\ llm_failure
  /\ Emit(<<StreamEvent("AgentInput", current_agent_name, "none", FALSE)>>)
  /\ UNCHANGED <<mock, env, edits>>

\* a printed line; of is the position on the stream of the event it reports
Line(kind, of) == [kind |-> kind, of |-> of]

\* the two prints of the AgentOutput branch
AgentOutputLines(event, of) ==
  (IF event.content THEN <<Line("Final response", of)>> ELSE <<>>)
  \o (IF event.tool # "none" THEN <<Line("Selected tools", of)>> ELSE <<>>)

\* the if/elif chain without current_agent = event.current_agent_name
loop_body_ForgetsAgent(event, of) ==
  IF HasAgentName(event) /\ event.by # observer.current_agent
    THEN [observer EXCEPT !.printed = Append(@, Line("Current agent", of)),
                          !.next = of + 1]
  ELSE IF event.type = "AgentOutput"
    THEN [observer EXCEPT !.printed = @ \o AgentOutputLines(event, of),
                          !.next = of + 1]
  ELSE IF event.type = "ToolCallResult"
    THEN [observer EXCEPT !.printed = Append(@, Line("Output from tool", of)),
                          !.next = of + 1]
  ELSE IF event.type = "ToolCall"
    THEN [observer EXCEPT
            !.printed = Append(@, Line("Calling selected tool", of)),
            !.next = of + 1]
  ELSE [observer EXCEPT !.next = of + 1]

\* the if/elif chain of main's loop, applied to one event
loop_body(event, of) ==
  IF HasAgentName(event) /\ event.by # observer.current_agent
    THEN [observer EXCEPT !.current_agent = event.by,
                          !.printed = Append(@, Line("Current agent", of)),
                          !.next = of + 1]
  ELSE IF event.type = "AgentOutput"
    THEN [observer EXCEPT !.printed = @ \o AgentOutputLines(event, of),
                          !.next = of + 1]
  ELSE IF event.type = "ToolCallResult"
    THEN [observer EXCEPT !.printed = Append(@, Line("Output from tool", of)),
                          !.next = of + 1]
  ELSE IF event.type = "ToolCall"
    THEN [observer EXCEPT
            !.printed = Append(@, Line("Calling selected tool", of)),
            !.next = of + 1]
  ELSE [observer EXCEPT !.next = of + 1]

\* async for event in handler.stream_events(): the next event, in order
stream_events ==
  /\ observer.next <= Len(observer.emitted)
  /\ observer' = loop_body(observer.emitted[observer.next], observer.next)
  /\ UNCHANGED <<current_agent_name, state, posted, status, memory,
                 last_event, rpa_first_turn, last_write, snapshot, mock, env,
                 edits>>

NextObserver ==
  \/ WatchAddContext
  \/ WatchGetPrDetails
  \/ WatchGetFileContents
  \/ WatchGetCommitDetails
  \/ WatchSaveDraft
  \/ WatchAddFinalReview
  \/ WatchPost
  \/ WatchHandoff
  \/ WatchRespond
  \/ WatchLlmFails
  \/ stream_events

SpecObserver == Init /\ [][NextObserver]_vars

\* ------ SpecClass: the workflow assembled from the three agent classes
\* name= of the FunctionAgent each build_agent method returns
build_agent_names ==
  {"ContextAgent", "CommentorAgent", "ReviewAndPostingAgent"}

\* can_handoff_to= of the FunctionAgent each build_agent method returns
build_agent_can_handoff_to(agent) ==
  CASE agent = "ContextAgent" -> {"CommentorAgent"}
    [] agent = "CommentorAgent" -> {"ReviewAndPostingAgent", "ContextAgent"}
    [] agent = "ReviewAndPostingAgent" -> {"CommentorAgent"}

\* ContextAgent.build_agent leaves add_context_to_state out of tools=
build_agent_tools_NoAddContext(agent) ==
  CASE agent = "ContextAgent" ->
         {"get_pr_details", "get_file_contents", "get_commit_details"}
    [] agent = "CommentorAgent" -> {"save_draft_comment_to_state"}
    [] agent = "ReviewAndPostingAgent" ->
         {"post_final_review_to_github", "add_final_review_to_state"}

\* tools= of the FunctionAgent each build_agent method returns, by tool name
build_agent_tools(agent) ==
  CASE agent = "ContextAgent" ->
         {"get_pr_details", "get_file_contents", "get_commit_details",
          "add_context_to_state"}
    [] agent = "CommentorAgent" -> {"save_draft_comment_to_state"}
    [] agent = "ReviewAndPostingAgent" ->
         {"post_final_review_to_github", "add_final_review_to_state"}

\* the active agent, built by its class, may call the tool
OfferedByClass(tool) ==
  /\ status = "running"
  /\ LlmAnswers
  /\ current_agent_name \in build_agent_names
  /\ tool \in build_agent_tools(current_agent_name)

ContextAgent_add_context_to_state(gathered_contexts) ==
  /\ OfferedByClass("add_context_to_state")
  /\ state' = edit_state("gathered_contexts", gathered_contexts)
  /\ last_write' = Written("gathered_contexts", gathered_contexts)
  /\ ToolReturned("add_context_to_state", gathered_contexts, 0)
  /\ UNCHANGED posted

\* 'body': pr.body or '<Empty body>' in ContextAgent.get_pr_details
ContextAgent_body(pr_body) ==
  IF pr_body.present /\ pr_body.text # "" THEN pr_body.text ELSE "<Empty body>"

ContextAgent_get_pr_details(pr_number, gateway_ok, pr_body) ==
  /\ OfferedByClass("get_pr_details")
  /\ IF gateway_ok /\ pr_number \in ExistingPulls
       THEN ToolReturnedWith("get_pr_details", "", pr_number,
                             [fetched |-> TRUE, pr_body |-> pr_body,
                              body |-> ContextAgent_body(pr_body)])
            /\ UNCHANGED <<state, posted, last_write>>
       ELSE ToolFailed("get_pr_details", "", pr_number)

ContextAgent_get_file_contents(file_path, gateway_ok) ==
  /\ OfferedByClass("get_file_contents")
  /\ IF gateway_ok /\ file_path \in ExistingPaths
       THEN ToolReturned("get_file_contents", file_path, 0)
            /\ UNCHANGED <<state, posted, last_write>>
       ELSE ToolFailed("get_file_contents", file_path, 0)

ContextAgent_get_commit_details(head_sha, gateway_ok) ==
  /\ OfferedByClass("get_commit_details")
  /\ IF gateway_ok /\ head_sha \in ExistingShas
       THEN ToolReturned("get_commit_details", head_sha, 0)
            /\ UNCHANGED <<state, posted, last_write>>
       ELSE ToolFailed("get_commit_details", head_sha, 0)

CommentorAgent_save_draft_comment_to_state(draft_comment) ==
  /\ OfferedByClass("save_draft_comment_to_state")
  /\ state' = edit_state("review_comment", draft_comment)
  /\ last_write' = Written("review_comment", draft_comment)
  /\ ToolReturned("save_draft_comment_to_state", draft_comment, 0)
  /\ UNCHANGED posted

ReviewAndPostingAgent_add_final_review_to_state(final_review) ==
  /\ OfferedByClass("add_final_review_to_state")
  /\ state' = edit_state("final_review_comment", final_review)
  /\ last_write' = Written("final_review_comment", final_review)
  /\ ToolReturned("add_final_review_to_state", final_review, 0)
  /\ UNCHANGED posted

\* pr = self.repo.get_pull(int(os.getenv("PR_NUMBER"))); pr.create_review(...)
ReviewAndPostingAgent_post_final_review_to_github(final_review_comment, gateway_ok) ==
  /\ OfferedByClass("post_final_review_to_github")
  /\ Len(posted) < MaxPosts
  /\ IF gateway_ok /\ PR_NUMBER \in ExistingPulls
       THEN /\ posted' = create_review(final_review_comment)
            /\ ToolReturned("post_final_review_to_github",
                            final_review_comment, PR_NUMBER)
            /\ UNCHANGED <<state, last_write>>
       ELSE ToolFailed("post_final_review_to_github",
                       final_review_comment, PR_NUMBER)

\* the workflow's handoff tool over the allow-lists of the class-built agents
handoff_ByClass(to_agent) ==
  /\ status = "running"
  /\ LlmAnswers
  /\ IF to_agent \in build_agent_can_handoff_to(current_agent_name)
          /\ to_agent \in build_agent_names
       THEN /\ current_agent_name' = to_agent
            /\ memory' = {}
            /\ rpa_first_turn' = FALSE
            /\ last_event' = Event("handoff", to_agent, 0, TRUE)
            /\ snapshot' = NoSnapshot
            /\ UNCHANGED <<state, posted, status, last_write>>
       ELSE ToolFailed("handoff", to_agent, 0)

ClassAddContext ==
  \E v \in Texts :
     ContextAgent_add_context_to_state(v) /\ UNCHANGED <<mock, rest>>

ClassGetPrDetails ==
  \E n \in PullArgs, ok \in BOOLEAN, b \in Bodies :
     ContextAgent_get_pr_details(n, ok, b) /\ UNCHANGED <<mock, rest>>

ClassGetFileContents ==
  \E f \in PathArgs, ok \in BOOLEAN :
     ContextAgent_get_file_contents(f, ok) /\ UNCHANGED <<mock, rest>>

ClassGetCommitDetails ==
  \E h \in ShaArgs, ok \in BOOLEAN :
     ContextAgent_get_commit_details(h, ok) /\ UNCHANGED <<mock, rest>>

ClassSaveDraft ==
  \E v \in Texts :
     CommentorAgent_save_draft_comment_to_state(v) /\ UNCHANGED <<mock, rest>>

ClassAddFinalReview ==
  \E v \in Texts :
     ReviewAndPostingAgent_add_final_review_to_state(v)
     /\ UNCHANGED <<mock, rest>>

ClassPost ==
  \E v \in Texts, ok \in BOOLEAN :
     ReviewAndPostingAgent_post_final_review_to_github(v, ok)
     /\ UNCHANGED <<mock, rest>>

ClassHandoff ==
  \E a \in HandoffArgs : handoff_ByClass(a) /\ UNCHANGED <<mock, rest>>

NextClass ==
  \/ ClassAddContext
  \/ ClassGetPrDetails
  \/ ClassGetFileContents
  \/ ClassGetCommitDetails
  \/ ClassSaveDraft
  \/ ClassAddFinalReview
  \/ ClassPost
  \/ ClassHandoff
  \/ Respond
  \/ LlmFails

SpecClass == Init /\ [][NextClass]_vars

\* ================================================================ claims
PostTool == "post_final_review_to_github"

GatewayTools ==
  {"get_pr_details", "get_file_contents", "get_commit_details", PostTool}

\* C1: in every run, whatever the agents decide, the post operation
\* (create_review) is executed at most once.
AtMostOnePost ==
  Len(posted) <= 1

\* C2: a handoff request naming an agent outside the requesting agent's
\* allow-list aborts the workflow with an error and does not make the named
\* agent active.
DisallowedHandoffAborts ==
  (/\ last_event.tool = "handoff"
   /\ last_event.arg \notin can_handoff_to(last_event.agent))
    => (status = "aborted" /\ current_agent_name # last_event.arg)

\* the four edges of the handoff graph
HandoffEdges ==
  {<<"ReviewAndPostingAgent", "CommentorAgent">>,
   <<"CommentorAgent", "ReviewAndPostingAgent">>,
   <<"CommentorAgent", "ContextAgent">>,
   <<"ContextAgent", "CommentorAgent">>}

\* C3: every change of the active agent follows one of the four edges
\* ReviewAndPostingAgent->CommentorAgent, CommentorAgent->ReviewAndPostingAgent,
\* CommentorAgent->ContextAgent, ContextAgent->CommentorAgent.
HandoffGraphShape ==
  [][current_agent_name' # current_agent_name
       => <<current_agent_name, current_agent_name'>> \in HandoffEdges]_vars

\* control reached ContextAgent, and it was CommentorAgent that passed it on
HandoffGraphShapeWitness ==
  /\ current_agent_name = "ContextAgent"
  /\ last_event.tool = "handoff" /\ last_event.ok
  /\ last_event.agent = "CommentorAgent"

\* the run is over, one review was posted, and the post was its last tool call
StoppedAfterOnePost ==
  /\ status = "stopped"
  /\ Len(posted) = 1
  /\ last_event.tool = PostTool /\ last_event.ok

NoPostBeforeDraft ==
  /\ rpa_first_turn => last_event.tool \in {"none", "handoff"}
  /\ last_event.tool = PostTool
       => (~rpa_first_turn /\ state["review_comment"] # "")

\* C7: whenever a review is posted, final_review_comment has been written,
\* the posted body equals it, and the pull request is PR_NUMBER.
PostCarriesSavedFinal ==
  (last_event.tool = PostTool /\ last_event.ok)
    => /\ state["final_review_comment"] # ""
       /\ last_event.arg = state["final_review_comment"]
       /\ last_event.pr = PR_NUMBER
       /\ posted[Len(posted)] =
            [pr |-> PR_NUMBER, body |-> state["final_review_comment"]]

\* C8: a run that ended without a fatal error has posted a review.
TerminationOnlyByPosting ==
  status = "stopped" => Len(posted) >= 1

\* C9: a write of v to a Run State field leaves that field equal to v and
\* the other two fields as they were.
StateOverwrite ==
  [][last_write'.field \in Fields
       => /\ state'[last_write'.field] = last_write'.value
          /\ last_write' # last_write
               => \A g \in Fields \ {last_write'.field} : state'[g] = state[g]]_vars

\* gathered_contexts was written over a different earlier value, control
\* then passed to CommentorAgent, which sees the second value only
StateOverwriteWitness ==
  /\ current_agent_name = "CommentorAgent"
  /\ last_event.tool = "handoff" /\ last_event.agent = "ContextAgent"
  /\ last_write = [field |-> "gathered_contexts", value |-> "t2",
                   replaced |-> "t1"]
  /\ state["gathered_contexts"] = "t2"

\* C10: a failed Gateway call is reported as a tool error: the run is not
\* aborted, the same agent stays active and Run State is unchanged.
GatewayFailuresNotFatal ==
  [][(/\ last_event' # last_event
      /\ last_event'.tool \in GatewayTools
      /\ ~last_event'.ok)
       => /\ status' = "running"
          /\ current_agent_name' = current_agent_name
          /\ state' = state]_vars

GatewayFailuresNotFatalWitness ==
  /\ last_event.tool \in GatewayTools /\ ~last_event.ok
  /\ status = "running"
  /\ state["gathered_contexts"] # ""


\* C11: while a required configuration value is missing, the program gets
\* no further than its start: no workflow runs, stops or aborts.
RequiredKeys == ConfigKeys

MissingConfigFailsAtStartup ==
  RequiredKeys \ env.config # {}
    => status \in {"loading", "main", "config_error"}

\* C12: get_pr_details returns '<Empty body>' when the pull request has no
\* body and the pull request's own body whenever it has one.
MissingBodyFallbackAsClaimed ==
  snapshot.fetched
    => snapshot.body = IF snapshot.pr_body.present
                         THEN snapshot.pr_body.text ELSE "<Empty body>"

\* C12, amended: get_pr_details returns '<Empty body>' when the body is
\* absent or the empty string, and the pull request's own body whenever it
\* is a non-empty text; the agent never sees an absent or empty body.
MissingBodyFallback ==
  snapshot.fetched
    => /\ snapshot.body # ""
       /\ snapshot.body =
            IF ~snapshot.pr_body.present \/ snapshot.pr_body.text = ""
              THEN "<Empty body>" ELSE snapshot.pr_body.text

MissingBodyFallbackWitness ==
  /\ snapshot.fetched
  /\ snapshot.pr_body = [present |-> TRUE, text |-> ""]
  /\ snapshot.body = "<Empty body>"
  /\ last_event.tool = "get_pr_details" /\ last_event.ok

Holders ==
  {a \in Agents : \E t \in tools(a) : Offered(t)}

LoopStep(from, to) ==
  /\ current_agent_name = from
  /\ HandoffTo(to)
  /\ current_agent_name' = to
  /\ status' = "running"
  /\ posted' = posted

RubricFailureMutatesNothing ==
  [][(/\ current_agent_name = "ReviewAndPostingAgent"
      /\ current_agent_name' = "CommentorAgent"
      /\ state["review_comment"] # "")
       => /\ state' = state
          /\ posted' = posted
          /\ state["final_review_comment"] = ""
               => state'["final_review_comment"] = ""]_vars

RubricFailureMutatesNothingWitness ==
  /\ current_agent_name = "CommentorAgent"
  /\ last_event.tool = "handoff" /\ last_event.ok
  /\ last_event.agent = "ReviewAndPostingAgent"
  /\ state["review_comment"] # ""
  /\ state["final_review_comment"] = ""
  /\ posted = <<>>

ReadTools == {"get_pr_details", "get_file_contents", "get_commit_details"}

\* C17: gathered_contexts is written and Gateway reads are made only while
\* ContextAgent is active, review_comment is written only while
\* CommentorAgent is active, final_review_comment is written and reviews
\* are posted only while ReviewAndPostingAgent is active.
CapabilityConfinement ==
  [][/\ (\/ state'["gathered_contexts"] # state["gathered_contexts"]
         \/ (last_write' # last_write
             /\ last_write'.field = "gathered_contexts")
         \/ (last_event' # last_event /\ last_event'.tool \in ReadTools))
        => (current_agent_name = "ContextAgent"
            /\ current_agent_name' = "ContextAgent")
     /\ (\/ state'["review_comment"] # state["review_comment"]
         \/ (last_write' # last_write /\ last_write'.field = "review_comment"))
        => (current_agent_name = "CommentorAgent"
            /\ current_agent_name' = "CommentorAgent")
     /\ (\/ state'["final_review_comment"] # state["final_review_comment"]
         \/ (last_write' # last_write
             /\ last_write'.field = "final_review_comment")
         \/ posted' # posted
         \/ (last_event' # last_event /\ last_event'.tool = PostTool))
        => (current_agent_name = "ReviewAndPostingAgent"
            /\ current_agent_name' = "ReviewAndPostingAgent")]_vars

\* every effect has happened once
CapabilityConfinementWitness ==
  /\ \A f \in Fields : state[f] # ""
  /\ posted # <<>>
  /\ current_agent_name = "ReviewAndPostingAgent"

\* C18: CommentorAgent hands off to ReviewAndPostingAgent only after it wrote
\* review_comment in this activation (at least once, where the text asks for
\* exactly once) and to
\* ContextAgent only if it did not, so ReviewAndPostingAgent, once past its
\* first turn, always finds review_comment non-empty.
DraftBeforeReview ==
  [][/\ (current_agent_name = "CommentorAgent"
         /\ current_agent_name' = "ReviewAndPostingAgent")
        => "save_draft_comment_to_state" \in memory
     /\ (current_agent_name = "CommentorAgent"
         /\ current_agent_name' = "ContextAgent")
        => "save_draft_comment_to_state" \notin memory
     /\ (current_agent_name' = "ReviewAndPostingAgent" /\ ~rpa_first_turn')
        => state'["review_comment"] # ""]_vars


\* the Run State after task t's assignment alone
Apply(s, t) ==
  [s EXCEPT ![WriterField(edits.tasks[t].tool)] = edits.tasks[t].value]

RECURSIVE Sequential(_)
\* the Run States that running the tasks of D one after the other, in any
\* order, can leave
Sequential(D) ==
  IF D = {} THEN {edits.start}
  ELSE UNION {{Apply(s, t) : s \in Sequential(D \ {t})} : t \in D}

DoneTasks ==
  {t \in DOMAIN edits.tasks : edits.tasks[t].pc = "done"}

InSection ==
  {t \in DOMAIN edits.tasks : edits.tasks[t].pc \in {"entered", "assigned"}}

\* C20: with writer tool calls in flight at the same time, at most one is
\* inside its edit_state section, and the Run State anyone can read is
\* always what the finished calls would leave when run one after the other
\* in some order: no write is lost and no partial update is visible.
ExclusiveStateAccessor ==
  edits.tasks # <<>> =>
    /\ Cardinality(InSection) <= 1
    /\ state \in Sequential(DoneTasks)

\* two calls on different fields have both finished and both writes are there
ExclusiveStateAccessorWitness ==
  /\ edits.tasks # <<>>
  /\ DoneTasks = Tasks
  /\ edits.tasks[1].tool # edits.tasks[2].tool
  /\ \A t \in {1, 2} :
       /\ edits.start[WriterField(edits.tasks[t].tool)] # edits.tasks[t].value
       /\ state[WriterField(edits.tasks[t].tool)] = edits.tasks[t].value


\* the events main's loop has taken off the stream so far
Consumed == 1..(observer.next - 1)

\* the lines main's loop owes an event that is not a switch of agent
LinesOwed(event) ==
  CASE event.type = "AgentOutput" ->
         (IF event.content THEN {"Final response"} ELSE {})
         \cup (IF event.tool # "none" THEN {"Selected tools"} ELSE {})
    [] event.type = "ToolCall" -> {"Calling selected tool"}
    [] event.type = "ToolCallResult" -> {"Output from tool"}
    [] OTHER -> {}

\* C19: main's loop prints in the order of the stream, prints every tool
\* call, tool result and agent output it has taken off the stream, and every
\* such line of agent X comes after a "Current agent: X" line with no other
\* "Current agent" line in between.
ObserverEventOrdering ==
  LET printed == observer.printed
      emitted == observer.emitted
  IN /\ \A i, j \in DOMAIN printed : i < j => printed[i].of <= printed[j].of
     /\ \A k \in Consumed : \A kind \in LinesOwed(emitted[k]) :
          \E i \in DOMAIN printed : printed[i] = Line(kind, k)
     /\ \A i \in DOMAIN printed :
          printed[i].kind # "Current agent" =>
            \E j \in 1..(i - 1) :
              /\ printed[j].kind = "Current agent"
              /\ emitted[printed[j].of].by = emitted[printed[i].of].by
              /\ \A m \in (j + 1)..(i - 1) : printed[m].kind # "Current agent"

\* lines of ReviewAndPostingAgent, then the switch, then a line of
\* CommentorAgent
ObserverEventOrderingWitness ==
  LET printed == observer.printed
      emitted == observer.emitted
  IN \E i, j, k \in DOMAIN printed :
       /\ i < j /\ j < k
       /\ printed[i].kind = "Output from tool"
       /\ emitted[printed[i].of].by = "ReviewAndPostingAgent"
       /\ emitted[printed[i].of].tool = "handoff"
       /\ printed[j].kind = "Current agent"
       /\ emitted[printed[j].of].by = "CommentorAgent"
       /\ printed[k].kind = "Selected tools"
       /\ emitted[printed[k].of].by = "CommentorAgent"


\* no step of A that is not a step of B, and none of B that is not one of A
SameSteps(A, B) ==
  /\ ~ENABLED (A /\ ~B)
  /\ ~ENABLED (B /\ ~A)

\* C21: the agents built by the three classes have the names, handoff
\* allow-lists and tool sets of the agents built in agent.py, and in every
\* reachable state each tool call and handoff of the workflow assembled from
\* the classes is possible exactly when it is in the workflow assembled in
\* agent.py, with the same effect on the active agent, Run State and posted
\* reviews.
AgentDefinitionsEquivalent ==
  /\ build_agent_names = Agents
  /\ \A a \in Agents :
       /\ build_agent_can_handoff_to(a) = can_handoff_to(a)
       /\ build_agent_tools(a) = tools(a)
  /\ SameSteps(ClassAddContext, CallAddContext)
  /\ SameSteps(ClassGetPrDetails, CallGetPrDetails)
  /\ SameSteps(ClassGetFileContents, CallGetFileContents)
  /\ SameSteps(ClassGetCommitDetails, CallGetCommitDetails)
  /\ SameSteps(ClassSaveDraft, CallSaveDraft)
  /\ SameSteps(ClassAddFinalReview, CallAddFinalReview)
  /\ SameSteps(ClassPost, CallPost)
  /\ SameSteps(ClassHandoff, CallHandoff)

\* the class-built agents have gathered, drafted, approved and posted
AgentDefinitionsEquivalentWitness ==
  /\ \A f \in Fields : state[f] # ""
  /\ posted # <<>>
  /\ last_event.tool = "post_final_review_to_github" /\ last_event.ok
  /\ status = "running"

====
